---- MODULE Spec2Model ----
(***************************************************************************)
(* Model of the Maven Rewards analytics code: the persisted segmentation   *)
(* model (utils/model_handler.py, utils/train_model.py), the Streamlit     *)
(* caches in front of it, the offer event normalizer and the RFM feature   *)
(* builder (utils/data_processor.py).                                      *)
(*                                                                         *)
(* Three specifications share the module:                                  *)
(*   Spec      - trainer and dashboard process over the model files        *)
(*   SpecOffer - preprocess_offer_events over bounded offer tables         *)
(*   SpecRFM   - the RFM derivation over bounded transaction tables        *)
(***************************************************************************)
EXTENDS Integers, Sequences, FiniteSets, TLC

(* ------------------------------ bounds --------------------------------- *)

\* number of training runs the trainer may perform
MaxRuns == 2

\* longest transaction table drawn as an input of the feature builder
MaxTx == 3

\* longest offer event table drawn as an input of the normalizer
\* the largest number of days of a historical series
MaxDays == 3

\* the largest forecast horizon
MaxSteps == 3

\* the largest number of rows of an offer table whose ages vary
MaxAgedOffers == 5

MaxOffers == 2

(* --------------------------- time arithmetic --------------------------- *)

SecondsPerHour == 3600

SecondsPerDay == 86400

\* the value used for a missing cell (NaN / None / NaT)
Null == "null"

\* a missing number (NaN, or NaT after the conversion to datetime) in a
\* column of non-negative numbers
NaN == -1

\* pd.to_datetime(col, unit='h'): an hour offset becomes an absolute time,
\* held here in seconds since the epoch, and a missing offset becomes NaT;
\* a column that already is a datetime column is returned as it is
ToDatetime(df) ==
    IF df.timeType = "datetime"
    THEN df
    ELSE [df EXCEPT !.timeType = "datetime",
                    !.rows = [i \in DOMAIN df.rows |->
                                 [df.rows[i] EXCEPT !.time =
                                     IF @ = NaN THEN NaN
                                     ELSE @ * SecondsPerHour]]]

\* Timedelta.days of a non-negative difference of two datetimes
Days(delta) == delta \div SecondsPerDay

\* pd.Timedelta(days=x)
TimedeltaDays(x) == x * SecondsPerDay

\* Timestamp.date(), as a day number
DateOf(t) == t \div SecondsPerDay

Max(S) == CHOOSE x \in S : \A y \in S : y <= x

Min(S) == CHOOSE x \in S : \A y \in S : x <= y

RECURSIVE SumSeq(_)
SumSeq(s) == IF s = <<>> THEN 0 ELSE Head(s) + SumSeq(Tail(s))

(* ------------------------- RFM feature builder ------------------------- *)

Customers == {"c1", "c2"}

GroupRows(rows, c) == SelectSeq(rows, LAMBDA r : r.customer_id = c)

TimesOf(rows) == {rows[i].time : i \in DOMAIN rows}

\* recency counted from the customer's first transaction (x.min())
RecencySinceFirst(rows, c) ==
    Days(Max(TimesOf(rows)) - Min(TimesOf(GroupRows(rows, c))))

\* 'time': lambda x: (transaction_df['time'].max() - x.max()).days
RecencyOf(rows, c) == Days(Max(TimesOf(rows)) - Max(TimesOf(GroupRows(rows, c))))

\* 'event': 'count' counts the non-null cells of the group
FrequencyOf(rows, c) ==
    Len(SelectSeq(GroupRows(rows, c), LAMBDA r : r.event # Null))

\* 'amount': 'sum'
AmountSum(rows, c) ==
    SumSeq([i \in DOMAIN GroupRows(rows, c) |-> GroupRows(rows, c)[i].amount])

\* the sum kept as it is, without the floor
NoFloor(x) == x

\* rfm['monetary'].apply(lambda x: max(x, 0))
ApplyFloor(x) == IF x > 0 THEN x ELSE 0

\* rfm['monetary'].apply(lambda x: x if x > 0 else 0)
TrainFloor(x) == IF x > 0 THEN x ELSE 0

\* the groupby/agg of apply_customer_segmentation, one row per customer_id
\* of the table, keyed by customer_id; columns in the order of the agg
ApplyRFM(df) ==
    LET rows == ToDatetime(df).rows
    IN  [c \in {rows[i].customer_id : i \in DOMAIN rows} |->
            [recency   |-> RecencyOf(rows, c),
             frequency |-> FrequencyOf(rows, c),
             monetary  |-> ApplyFloor(AmountSum(rows, c))]]

\* the same derivation in train_model.load_and_prepare_data
TrainRFM(df) ==
    LET rows == ToDatetime(df).rows
    IN  [c \in {rows[i].customer_id : i \in DOMAIN rows} |->
            [recency   |-> RecencyOf(rows, c),
             frequency |-> FrequencyOf(rows, c),
             monetary  |-> TrainFloor(AmountSum(rows, c))]]

(* ------------------ persisted model and Streamlit caches --------------- *)

VARIABLES
    disk,         \* model file path -> NoFile or the content of the file
    trainPc,      \* position of the trainer in train_and_save_models
    runs,         \* number of training runs started so far
    modelCache,   \* st.cache_resource of load_model: path -> loaded model
    filterCache,  \* st.cache_data of filter_data: key -> returned value
    dataCache,    \* st.cache_data of apply_customer_segmentation
    pc,           \* position of the dashboard call in flight
    frame,        \* locals of the apply call in flight
    ret,          \* what the last finished dashboard call returned
    obs           \* history: models used by the last computed apply call,
                  \* and the files on disk at that moment

ScalerPath == "models/scaler.joblib"

KmeansPath == "models/kmeans_model.joblib"

ModelPaths == {ScalerPath, KmeansPath}

\* no fitted object
NoModel == [run |-> 0]

\* a path at which os.path.exists is false
NoFile == [exists |-> FALSE, model |-> NoModel, whole |-> FALSE]

\* a path load_model has not yet loaded in this process
NotLoaded == NoModel

NoFrame == [df |-> [timeType |-> "int", rows |-> <<>>], scaler |-> NoModel]

NoObs == [scaler |-> NoModel, kmeans |-> NoModel,
          disk |-> [p \in ModelPaths |-> NoFile]]

NoCall == [fn |-> "none"]

\* the value of a call that raised
NoValue == [rfm |-> <<>>, cluster |-> <<>>]

\* the table load_transaction_events hands to the pages (time already
\* converted by the loader)
TransactionEvents ==
    [timeType |-> "datetime",
     rows |-> << [customer_id |-> "c1", event |-> "transaction",
                  time |-> 0 * SecondsPerHour,  amount |-> 5],
                 [customer_id |-> "c2", event |-> "transaction",
                  time |-> 30 * SecondsPerHour, amount |-> 20],
                 [customer_id |-> "c1", event |-> "transaction",
                  time |-> 50 * SecondsPerHour, amount |-> 7] >>]

\* the preprocessed offer table the offer performance page filters
OfferEvents ==
    [timeType |-> "datetime",
     rows |-> << [customer_id |-> "c1", offer_type |-> "bogo",
                  time |-> 0 * SecondsPerHour],
                 [customer_id |-> "c2", offer_type |-> "discount",
                  time |-> 30 * SecondsPerHour] >>]

\* the (start_date, end_date) pairs the date input can yield, as day numbers
DateRanges == {<<0, 0>>, <<1, 2>>}

\* the selections of the offer type multiselect
OfferTypeSelections == {{"bogo"}, {"bogo", "discount"}}

Between(x, lo, hi) == lo <= x /\ x <= hi

\* body of filter_data
FilterDataBody(offer_events, transaction_events, start_date, end_date, types) ==
    [offers |->
        [offer_events EXCEPT !.rows = SelectSeq(@,
            LAMBDA r : Between(DateOf(r.time), start_date, end_date)
                       /\ r.offer_type \in types)],
     transactions |->
        [transaction_events EXCEPT !.rows = SelectSeq(@,
            LAMBDA r : Between(DateOf(r.time), start_date, end_date))]]

\* st.cache_data key of filter_data: the hash of every argument
FilterDataKey(offer_events, transaction_events, start_date, end_date, types) ==
    <<offer_events, transaction_events, start_date, end_date, types>>

\* a cache key that forgets the content of the table (keeps its shape only)
ApplyKeyByShape(transaction_df, scaler_path, kmeans_path) ==
    <<Len(transaction_df.rows) > 0, scaler_path, kmeans_path>>

\* st.cache_data key of apply_customer_segmentation: the hash of the table
\* and of the two paths
ApplyKey(transaction_df, scaler_path, kmeans_path) ==
    <<transaction_df, scaler_path, kmeans_path>>

\* load_model without its st.cache_resource: every call reads the file
LoadModelUncached(model_path, cache, dsk) ==
    IF ~dsk[model_path].exists
    THEN [status |-> "FileNotFoundError", model |-> NoModel, cache |-> cache]
    ELSE IF ~dsk[model_path].whole
    THEN [status |-> "UnpicklingError", model |-> NoModel, cache |-> cache]
    ELSE [status |-> "ok", model |-> dsk[model_path].model,
          cache |-> [cache EXCEPT ![model_path] = dsk[model_path].model]]

\* load_model behind st.cache_resource: the first successful call for a
\* path reads the file and keeps the object; later calls return that object;
\* a call that raises caches nothing
LoadModel(model_path, cache, dsk) ==
    IF cache[model_path] # NotLoaded
    THEN [status |-> "ok", model |-> cache[model_path], cache |-> cache]
    ELSE IF ~dsk[model_path].exists
    THEN [status |-> "FileNotFoundError", model |-> NoModel, cache |-> cache]
    ELSE IF ~dsk[model_path].whole
    THEN [status |-> "UnpicklingError", model |-> NoModel, cache |-> cache]
    ELSE [status |-> "ok", model |-> dsk[model_path].model,
          cache |-> [cache EXCEPT ![model_path] = dsk[model_path].model]]

\* scaler.transform followed by kmeans.predict: the cluster column is a
\* function of the features and of the two fitted objects
PredictClusters(rfm, scaler, kmeans) ==
    [c \in DOMAIN rfm |-> [scaler |-> scaler.run, kmeans |-> kmeans.run,
                           features |-> rfm[c]]]

\* lines 41-58 of apply_customer_segmentation: the returned table
SegmentationTable(transaction_df, scaler, kmeans) ==
    [rfm |-> ApplyRFM(transaction_df),
     cluster |-> PredictClusters(ApplyRFM(transaction_df), scaler, kmeans)]

(* ------------------ offer normalizer and feature builder --------------- *)

VARIABLES
    offerDf,      \* the offer table the caller passes to the normalizer
    offerOut,     \* the table preprocess_offer_events returned
    txLog,        \* the transaction table the loader returned
    txDf,         \* the table the page passes to the feature builder
    txPc,         \* "loaded": txDf is txLog itself; "filtered": a filtered copy
    rfmOut        \* the RFM tables derived at apply time and at training time

VARIABLES
    kmTx,         \* the transaction table the trainer and the dashboard load
    kmK,          \* n_clusters the trainer is called with
    kmColumns,    \* the columns of the rfm_data the trainer is called with
    kmSeed,       \* the draws of the generator seeded with random_state
    kmFit,        \* outcome of the last training run
    kmLast        \* outcome of the last apply_customer_segmentation call

VARIABLES
    pfDf,         \* the offer table, with clusters, a caller holds
    pfView,       \* the rows of the exploded table preprocess_channels returned
    pfOut         \* outcome of the last aggregation call

VARIABLES
    clvDf,        \* the transaction table passed to the lifetime-value estimator
    clvOut,       \* outcome of analyze_customer_lifetime_value
    fcSeries,     \* the daily series passed to the forecaster
    fcOut         \* outcome of generate_forecast

vars == <<disk, trainPc, runs, modelCache, filterCache, dataCache, pc, frame,
          ret, obs, offerDf, offerOut, txLog, txDf, txPc, rfmOut,
          kmTx, kmK, kmColumns, kmSeed, kmFit, kmLast, pfDf, pfView, pfOut,
          clvDf, clvOut, fcSeries, fcOut>>

clvVars == <<clvDf, clvOut>>

fcVars == <<fcSeries, fcOut>>

modelVars == <<disk, trainPc, runs, modelCache, filterCache, dataCache, pc,
               frame, ret, obs>>

offerVars == <<offerDf, offerOut>>

rfmVars == <<txLog, txDf, txPc, rfmOut>>

kmVars == <<kmTx, kmK, kmColumns, kmSeed, kmFit, kmLast>>

pfVars == <<pfDf, pfView, pfOut>>

NoTable == [timeType |-> "int", rows |-> <<>>]

NoOfferTable == [timeType |-> "int", hasAge |-> FALSE, rows |-> <<>>]

\* no call of the normalizer has returned yet
NotRun == [done |-> FALSE, status |-> "none", df |-> NoOfferTable]

\* the generator has not been consulted yet
NoDraws == <<>>

\* no training run has ended yet; rerun tells whether the run followed a
\* run that had fitted the same table
NoFit == [status |-> "none", X |-> <<>>, scaler |-> NoModel, kmeans |-> NoModel,
          rerun |-> FALSE]

\* no apply call has ended yet; repeat tells whether the call followed a
\* call that had returned for the same features and the same model objects
NoReturn == [status |-> "none", rows |-> <<>>, X |-> <<>>,
             scaler |-> NoModel, kmeans |-> NoModel, cluster |-> <<>>,
             repeat |-> FALSE]

\* an offer table without rows, its channels column as loaded
NoPerfTable == [channelsType |-> "str", rows |-> <<>>]

\* no exploded table has been returned yet
NoView == <<>>

\* no aggregation call has ended yet
NoResult == [fn |-> "none", status |-> "none", args |-> <<>>, value |-> <<>>]

\* analyze_customer_lifetime_value has not been called yet
NoCLV == [done |-> FALSE, table |-> <<>>]

\* a daily series without points
NoSeries == [indexType |-> "datetime", index |-> <<>>, values |-> <<>>]

\* generate_forecast has not been called yet
NoForecast == [done |-> FALSE, status |-> "none", steps |-> 0,
               forecast_df |-> <<>>, historical_df |-> <<>>]

\* no RFM table has been derived yet
NoRFM == [applyDone |-> FALSE, apply |-> <<>>, trainDone |-> FALSE, train |-> <<>>]

(* ------------------------------ trainer -------------------------------- *)

\* joblib.dump opens the target for writing, which truncates it in place
DumpOpen(dsk, path, model) ==
    [dsk EXCEPT ![path] = [exists |-> TRUE, model |-> model, whole |-> FALSE]]

\* ... and the file is whole once the pickle has been written and closed
DumpClose(dsk, path) == [dsk EXCEPT ![path].whole = TRUE]

\* train_and_save_models, lines 72-79: both objects are fitted in memory
TrainFit ==
    /\ trainPc = "idle"
    /\ runs < MaxRuns
    /\ runs' = runs + 1
    /\ trainPc' = "dump_kmeans"
    /\ UNCHANGED <<disk, modelCache, filterCache, dataCache, pc, frame, ret, obs>>
    /\ UNCHANGED <<offerVars, rfmVars, kmVars, pfVars, clvVars, fcVars>>

\* line 81: joblib.dump(kmeans, .../kmeans_model.joblib)
DumpKmeans ==
    /\ \/ /\ trainPc = "dump_kmeans"
          /\ disk' = DumpOpen(disk, KmeansPath, [run |-> runs])
          /\ trainPc' = "write_kmeans"
       \/ /\ trainPc = "write_kmeans"
          /\ disk' = DumpClose(disk, KmeansPath)
          /\ trainPc' = "dump_scaler"
    /\ UNCHANGED <<runs, modelCache, filterCache, dataCache, pc, frame, ret, obs>>
    /\ UNCHANGED <<offerVars, rfmVars, kmVars, pfVars, clvVars, fcVars>>

\* line 82: joblib.dump(scaler, .../scaler.joblib)
DumpScaler ==
    /\ \/ /\ trainPc = "dump_scaler"
          /\ disk' = DumpOpen(disk, ScalerPath, [run |-> runs])
          /\ trainPc' = "write_scaler"
       \/ /\ trainPc = "write_scaler"
          /\ disk' = DumpClose(disk, ScalerPath)
          /\ trainPc' = "idle"
    /\ UNCHANGED <<runs, modelCache, filterCache, dataCache, pc, frame, ret, obs>>
    /\ UNCHANGED <<offerVars, rfmVars, kmVars, pfVars, clvVars, fcVars>>

\* a dump raises (or the trainer is stopped): the run ends where it is and
\* the files stay as they are
TrainFail ==
    /\ trainPc \in {"dump_kmeans", "write_kmeans", "dump_scaler", "write_scaler"}
    /\ trainPc' = "idle"
    /\ UNCHANGED <<disk, runs, modelCache, filterCache, dataCache, pc, frame, ret, obs>>
    /\ UNCHANGED <<offerVars, rfmVars, kmVars, pfVars, clvVars, fcVars>>

(* ----------------------------- dashboard ------------------------------- *)

\* filter_data behind st.cache_data
FilterData(start_date, end_date, types) ==
    /\ pc = "idle"
    /\ LET key == FilterDataKey(OfferEvents, TransactionEvents,
                                start_date, end_date, types)
           hit == key \in DOMAIN filterCache
           value == IF hit THEN filterCache[key]
                    ELSE FilterDataBody(OfferEvents, TransactionEvents,
                                        start_date, end_date, types)
       IN  /\ filterCache' = IF hit THEN filterCache
                             ELSE (key :> value) @@ filterCache
           /\ ret' = [fn |-> "filter_data", status |-> "ok", hit |-> hit,
                      args |-> <<start_date, end_date, types>>,
                      value |-> value]
    /\ UNCHANGED <<disk, trainPc, runs, modelCache, dataCache, pc, frame, obs>>
    /\ UNCHANGED <<offerVars, rfmVars, kmVars, pfVars, clvVars, fcVars>>

\* the tables a page can pass to apply_customer_segmentation: the loaded
\* table or the transactions of a filter_data result
PageTables ==
    {TransactionEvents} \cup
    {filterCache[k].transactions : k \in DOMAIN filterCache}

\* apply_customer_segmentation is entered: st.cache_data answers from the
\* cache on a hit, otherwise the body starts
ApplyCall(transaction_df) ==
    /\ pc = "idle"
    /\ LET key == ApplyKey(transaction_df, ScalerPath, KmeansPath)
       IN  IF key \in DOMAIN dataCache
           THEN /\ ret' = [fn |-> "apply", status |-> "ok", hit |-> TRUE,
                           args |-> transaction_df, value |-> dataCache[key]]
                /\ UNCHANGED <<pc, frame>>
           ELSE /\ pc' = "load_scaler"
                /\ frame' = [df |-> transaction_df, scaler |-> NoModel]
                /\ UNCHANGED ret
    /\ UNCHANGED <<disk, trainPc, runs, modelCache, filterCache, dataCache, obs>>
    /\ UNCHANGED <<offerVars, rfmVars, kmVars, pfVars, clvVars, fcVars>>

\* line 38: scaler = load_model(scaler_path)
ApplyLoadScaler ==
    /\ pc = "load_scaler"
    /\ LET r == LoadModel(ScalerPath, modelCache, disk)
       IN  /\ modelCache' = r.cache
           /\ IF r.status = "ok"
              THEN /\ frame' = [frame EXCEPT !.scaler = r.model]
                   /\ pc' = "load_kmeans"
                   /\ UNCHANGED ret
              ELSE /\ ret' = [fn |-> "apply", status |-> r.status, hit |-> FALSE,
                              args |-> frame.df, value |-> NoValue]
                   /\ pc' = "idle"
                   /\ frame' = NoFrame
    /\ UNCHANGED <<disk, trainPc, runs, filterCache, dataCache, obs>>
    /\ UNCHANGED <<offerVars, rfmVars, kmVars, pfVars, clvVars, fcVars>>

\* lines 39-58: kmeans = load_model(kmeans_path), then the RFM table is
\* built, standardized and assigned; st.cache_data stores the result
ApplyLoadKmeansAndPredict ==
    /\ pc = "load_kmeans"
    /\ LET r == LoadModel(KmeansPath, modelCache, disk)
           value == SegmentationTable(frame.df, frame.scaler, r.model)
       IN  /\ modelCache' = r.cache
           /\ IF r.status = "ok"
              THEN /\ dataCache' = (ApplyKey(frame.df, ScalerPath, KmeansPath)
                                    :> value) @@ dataCache
                   /\ ret' = [fn |-> "apply", status |-> "ok", hit |-> FALSE,
                              args |-> frame.df, value |-> value]
                   /\ obs' = [scaler |-> frame.scaler, kmeans |-> r.model,
                              disk |-> disk]
              ELSE /\ ret' = [fn |-> "apply", status |-> r.status, hit |-> FALSE,
                              args |-> frame.df, value |-> NoValue]
                   /\ UNCHANGED <<dataCache, obs>>
    /\ pc' = "idle"
    /\ frame' = NoFrame
    /\ UNCHANGED <<disk, trainPc, runs, filterCache>>
    /\ UNCHANGED <<offerVars, rfmVars, kmVars, pfVars, clvVars, fcVars>>

InitModel ==
    /\ disk = [p \in ModelPaths |-> NoFile]
    /\ trainPc = "idle"
    /\ runs = 0
    /\ modelCache = [p \in ModelPaths |-> NotLoaded]
    /\ filterCache = <<>>
    /\ dataCache = <<>>
    /\ pc = "idle"
    /\ frame = NoFrame
    /\ ret = NoCall
    /\ obs = NoObs

IdleOffer == offerDf = NoOfferTable /\ offerOut = NotRun

IdleRFM == txLog = NoTable /\ txDf = NoTable /\ txPc = "loaded" /\ rfmOut = NoRFM

IdleKM ==
    /\ kmTx = NoTable /\ kmK = 0 /\ kmColumns = <<>> /\ kmSeed = NoDraws
    /\ kmFit = NoFit /\ kmLast = NoReturn

IdlePerf == pfDf = NoPerfTable /\ pfView = NoView /\ pfOut = NoResult

IdleCLV == clvDf = <<>> /\ clvOut = NoCLV

IdleForecast == fcSeries = NoSeries /\ fcOut = NoForecast

Init == InitModel /\ IdleOffer /\ IdleRFM /\ IdleKM /\ IdlePerf /\ IdleCLV
        /\ IdleForecast

Next ==
    \/ TrainFit
    \/ DumpKmeans
    \/ DumpScaler
    \/ TrainFail
    \/ \E d \in DateRanges, types \in OfferTypeSelections :
          FilterData(d[1], d[2], types)
    \/ \E df \in PageTables : ApplyCall(df)
    \/ ApplyLoadScaler
    \/ ApplyLoadKmeansAndPredict

Spec == Init /\ [][Next]_vars

(* --------------------------- offer normalizer -------------------------- *)

Offers == {"o1", "o2"}

OfferEventTypes == {"offer received", "offer viewed", "offer completed"}

\* the hour offsets of the raw offer events
OfferHours == {0, 24, 25}

\* duration (days) is an attribute of the offer, repeated on its rows
DurationOf == [o \in Offers |-> IF o = "o1" THEN 1 ELSE 2]

\* age is an attribute of the customer, repeated on the rows; c2 gave none
AgeOf == [c \in Customers |-> IF c = "c1" THEN 30 ELSE NaN]

\* the rows of an offer_id group, as positions in the table
GroupOf(rows, offer_id) == {j \in DOMAIN rows : rows[j].offer_id = offer_id}

\* the time of the earliest row of the group
EarliestOfGroup(rows, offer_id) ==
    Min({rows[j].time : j \in GroupOf(rows, offer_id)})

\* the time of the last row of the table that has the offer_id
LastOfGroup(rows, offer_id) ==
    rows[Max(GroupOf(rows, offer_id))].time

\* df.groupby('offer_id')['time'].transform('first'): for each row the time
\* of the first row of the table that has the row's offer_id and a time
\* (first skips the missing values), NaT for a group without any time
FirstOfGroup(rows, offer_id) ==
    LET timed == {j \in GroupOf(rows, offer_id) : rows[j].time # NaN}
    IN  IF timed = {} THEN NaN ELSE rows[Min(timed)].time

\* pd.Timedelta(days=x) of a missing x: the constructor converts the
\* number of days to an integer number of nanoseconds, which raises
\* ValueError for NaN; builds that map a missing value to NaT return
\* instead. TRUE is the raise.
TimedeltaRaises(rows) ==
    IF \E i \in DOMAIN rows : rows[i].duration = NaN
    THEN BOOLEAN
    ELSE {FALSE}

\* lines 29-32: the offer_success column, over rows whose time is a datetime;
\* a comparison with NaT on either side is False
OfferSuccess(rows) ==
    [i \in DOMAIN rows |->
        /\ rows[i].event = "offer completed"
        /\ rows[i].time # NaN
        /\ rows[i].duration # NaN
        /\ rows[i].time - FirstOfGroup(rows, rows[i].offer_id)
              <= TimedeltaDays(rows[i].duration)]

\* Series.quantile(q) with linear interpolation over the non-missing
\* values, times 4 (q = num/4): position (n-1)*num/4 in the sorted values
Quantile4(values, num) ==
    LET sorted == SortSeq(values, LAMBDA a, b : a < b)
        n      == Len(sorted)
        lo     == ((n - 1) * num) \div 4
        rem    == ((n - 1) * num) % 4
    IN  IF rem = 0
        THEN 4 * sorted[lo + 1]
        ELSE 4 * sorted[lo + 1] + rem * (sorted[lo + 2] - sorted[lo + 1])

\* lines 35-41: the rows whose age lies in [q1 - 1.5 iqr, q3 + 1.5 iqr];
\* a missing age compares false with both bounds, and with no age at all
\* both bounds are missing and no row is kept
RemoveAgeOutliers(rows) ==
    LET known == SelectSeq(rows, LAMBDA r : r.age # NaN)
        ages  == [i \in DOMAIN known |-> known[i].age]
        q1    == Quantile4(ages, 1)
        q3    == Quantile4(ages, 3)
        iqr   == q3 - q1
        lower_bound == 2 * q1 - 3 * iqr
        upper_bound == 2 * q3 + 3 * iqr
    IN  IF known = <<>>
        THEN <<>>
        ELSE SelectSeq(rows, LAMBDA r : /\ r.age # NaN
                                         /\ 8 * r.age >= lower_bound
                                         /\ 8 * r.age <= upper_bound)

\* what the assignments of preprocess_offer_events leave in the table that
\* was passed in: the time column converted, the offer_success column added
WithOfferSuccess(df) ==
    LET t == ToDatetime(df)
    IN  [t EXCEPT !.rows = [i \in DOMAIN t.rows |->
            [customer_id |-> t.rows[i].customer_id,
             offer_id    |-> t.rows[i].offer_id,
             event       |-> t.rows[i].event,
             time        |-> t.rows[i].time,
             duration    |-> t.rows[i].duration,
             age         |-> t.rows[i].age,
             offer_success |-> OfferSuccess(t.rows)[i]]]]

\* the age outliers removed first and offer_success computed over the rows
\* that are left
FilteredBeforeSuccess(df) ==
    LET t == ToDatetime(df)
    IN  WithOfferSuccess([t EXCEPT !.rows = IF df.hasAge
                                            THEN RemoveAgeOutliers(@)
                                            ELSE @])

\* the table preprocess_offer_events returns
PreprocessedOffers(df) ==
    LET marked == WithOfferSuccess(df)
    IN  IF df.hasAge
        THEN [marked EXCEPT !.rows = RemoveAgeOutliers(@)]
        ELSE marked

OfferRow(c, o, e, h) ==
    [customer_id |-> c, offer_id |-> o, event |-> e, time |-> h,
     duration |-> DurationOf[o], age |-> AgeOf[c]]

RawOfferRows ==
    {OfferRow(c, o, e, h) : c \in Customers, o \in Offers,
                            e \in OfferEventTypes, h \in OfferHours}

SeqsUpTo(S, n) == UNION {[1..k -> S] : k \in 0..n}

\* preprocess_offer_events(df): the caller's table is changed in place and
\* the table without the age outliers is returned; when line 32 raises,
\* the time column is already converted and nothing is returned
PreprocessOfferEvents ==
    /\ ~offerOut.done
    /\ \E raised \in TimedeltaRaises(offerDf.rows) :
          IF raised
          THEN /\ offerDf' = ToDatetime(offerDf)
               /\ offerOut' = [done |-> TRUE, status |-> "ValueError",
                               df |-> NoOfferTable]
          ELSE /\ offerDf' = WithOfferSuccess(offerDf)
               /\ offerOut' = [done |-> TRUE, status |-> "ok",
                               df |-> PreprocessedOffers(offerDf)]
    /\ UNCHANGED <<modelVars, rfmVars, kmVars, pfVars, clvVars, fcVars>>

InitOffer ==
    /\ \E rows \in SeqsUpTo(RawOfferRows, MaxOffers), hasAge \in BOOLEAN :
          offerDf = [timeType |-> "int", hasAge |-> hasAge, rows |-> rows]
    /\ offerOut = NotRun
    /\ InitModel
    /\ IdleRFM
    /\ IdleKM
    /\ IdlePerf
    /\ IdleCLV
    /\ IdleForecast

NextOffer == PreprocessOfferEvents

SpecOffer == InitOffer /\ [][NextOffer]_vars

\* raw offer events of which some lack their time or their duration
MalformedOfferRows ==
    {[OfferRow("c1", o, e, h) EXCEPT !.duration = IF missing THEN NaN ELSE @] :
        o \in Offers, e \in {"offer received", "offer completed"},
        h \in {0, 25, NaN}, missing \in BOOLEAN}

InitOfferMissing ==
    /\ \E rows \in SeqsUpTo(MalformedOfferRows, MaxOffers), hasAge \in BOOLEAN :
          offerDf = [timeType |-> "int", hasAge |-> hasAge, rows |-> rows]
    /\ offerOut = NotRun
    /\ InitModel
    /\ IdleRFM
    /\ IdleKM
    /\ IdlePerf
    /\ IdleCLV
    /\ IdleForecast

SpecOfferMissing == InitOfferMissing /\ [][NextOffer]_vars

\* events of the offer o1 sent to customers of three kinds: age 30, no age
\* given, age 90
AgedOfferRows ==
    {[OfferRow("c1", "o1", x[3], x[4]) EXCEPT !.customer_id = x[1],
                                              !.age = x[2]] :
        x \in {<<"c1", 30, "offer received", 0>>,
               <<"c1", 30, "offer completed", 24>>,
               <<"c1", 30, "offer completed", 25>>,
               <<"c2", NaN, "offer completed", 24>>,
               <<"c3", 90, "offer received", 0>>,
               <<"c3", 90, "offer completed", 25>>}}

InitOfferAges ==
    /\ \E rows \in SeqsUpTo(AgedOfferRows, MaxAgedOffers) :
          offerDf = [timeType |-> "int", hasAge |-> TRUE, rows |-> rows]
    /\ offerOut = NotRun
    /\ InitModel
    /\ IdleRFM
    /\ IdleKM
    /\ IdlePerf
    /\ IdleCLV
    /\ IdleForecast

SpecOfferAges == InitOfferAges /\ [][NextOffer]_vars

(* ------------------------ RFM feature derivation ----------------------- *)

\* the hour offsets of the raw transactions
TxHours == {0, 30, 50}

\* the amounts of the raw transactions; a negative amount is a refund
TxAmounts == {-5, 3}

\* the (min_amount, max_amount) pairs of the amount slider
AmountRanges == {<<0, 5>>, <<-5, 0>>}

RawTxRows ==
    {[customer_id |-> c, event |-> "transaction", time |-> h, amount |-> a] :
        c \in Customers, h \in TxHours, a \in TxAmounts}

\* preprocess_transaction_data: the rows with min_amount <= amount <= max_amount
PreprocessTransactionDataBody(transaction_events, min_amount, max_amount) ==
    [transaction_events EXCEPT !.rows = SelectSeq(@,
        LAMBDA r : r.amount >= min_amount /\ r.amount <= max_amount)]

\* the customer segments page filters the loaded table by amount; the
\* result is a new table
PreprocessTransactionData(min_amount, max_amount) ==
    /\ txPc = "loaded"
    /\ ~rfmOut.applyDone
    /\ txDf' = PreprocessTransactionDataBody(txLog, min_amount, max_amount)
    /\ txPc' = "filtered"
    /\ UNCHANGED <<txLog, rfmOut>>
    /\ UNCHANGED <<modelVars, offerVars, kmVars, pfVars, clvVars, fcVars>>

\* the offer performance page filters the loaded table by date (filter_data)
\* and passes the transactions of the result on
FilterTransactionsByDate(start_date, end_date) ==
    /\ txPc = "loaded"
    /\ ~rfmOut.applyDone
    /\ txLog.timeType = "datetime"
    /\ txDf' = FilterDataBody(OfferEvents, txLog, start_date, end_date,
                              {"bogo", "discount"}).transactions
    /\ txPc' = "filtered"
    /\ UNCHANGED <<txLog, rfmOut>>
    /\ UNCHANGED <<modelVars, offerVars, kmVars, pfVars, clvVars, fcVars>>

\* apply_customer_segmentation, lines 41-52, on the table the page passes:
\* its time column is converted in place and the RFM table is derived
ApplyFeatureDerivation ==
    /\ ~rfmOut.applyDone
    /\ rfmOut' = [rfmOut EXCEPT !.applyDone = TRUE, !.apply = ApplyRFM(txDf)]
    /\ txDf' = ToDatetime(txDf)
    /\ txLog' = IF txPc = "loaded" THEN ToDatetime(txLog) ELSE txLog
    /\ UNCHANGED txPc
    /\ UNCHANGED <<modelVars, offerVars, kmVars, pfVars, clvVars, fcVars>>

\* train_model.load_and_prepare_data on the loaded table
LoadAndPrepareData ==
    /\ ~rfmOut.trainDone
    /\ rfmOut' = [rfmOut EXCEPT !.trainDone = TRUE, !.train = TrainRFM(txLog)]
    /\ txLog' = ToDatetime(txLog)
    /\ txDf' = IF txPc = "loaded" THEN ToDatetime(txDf) ELSE txDf
    /\ UNCHANGED txPc
    /\ UNCHANGED <<modelVars, offerVars, kmVars, pfVars, clvVars, fcVars>>

InitRFM ==
    /\ \E rows \in SeqsUpTo(RawTxRows, MaxTx), tt \in {"int", "datetime"} :
          txLog = IF tt = "int"
                  THEN [timeType |-> "int", rows |-> rows]
                  ELSE ToDatetime([timeType |-> "int", rows |-> rows])
    /\ txDf = txLog
    /\ txPc = "loaded"
    /\ rfmOut = NoRFM
    /\ InitModel
    /\ IdleOffer
    /\ IdleKM
    /\ IdlePerf
    /\ IdleCLV
    /\ IdleForecast

NextRFM ==
    \/ \E a \in AmountRanges : PreprocessTransactionData(a[1], a[2])
    \/ \E d \in DateRanges : FilterTransactionsByDate(d[1], d[2])
    \/ ApplyFeatureDerivation
    \/ LoadAndPrepareData

SpecRFM == InitRFM /\ [][NextRFM]_vars

(* ----------------------- scaler and cluster model ---------------------- *)

\* the index of an RFM table: groupby sorts the customer ids
CustomerOrder == <<"c1", "c2", "c3">>

\* the columns of the RFM table, in the order of the agg
RFMColumns == <<"recency", "frequency", "monetary">>

Range(s) == {s[i] : i \in DOMAIN s}

\* the element of a one-element set; Only({e : x \in {v}}) is e with the
\* value v computed once and named x
Only(S) == CHOOSE x \in S : TRUE

RECURSIVE Factorial(_)
Factorial(n) == IF n <= 1 THEN 1 ELSE n * Factorial(n - 1)

\* the RFM table as the array handed to scikit-learn: the named columns and
\* one row per customer
AsFrame(rfm, columns) ==
    [columns |-> columns,
     rows |-> [c \in DOMAIN rfm |-> [f \in Range(columns) |-> rfm[c][f]]]]

\* the customers of a frame in index order
IndexOf(X) == SelectSeq(CustomerOrder, LAMBDA c : c \in DOMAIN X.rows)

\* StandardScaler().fit(X): per column, mean_ = sum / n_samples and
\* var_ = var / n_samples^2 (the population variance); scale_ is the square
\* root of var_, and 1 for a column of variance 0
FitScaler(X) ==
    LET idx == IndexOf(X)
        n == Len(idx)
        colsum(f) == SumSeq([i \in 1..n |-> X.rows[idx[i]][f]])
        colsq(f) == SumSeq([i \in 1..n |-> X.rows[idx[i]][f] * X.rows[idx[i]][f]])
    IN  [feature_names_in |-> X.columns,
         n_samples |-> n,
         sum |-> [f \in Range(X.columns) |-> colsum(f)],
         var |-> [f \in Range(X.columns) |->
                     n * colsq(f) - colsum(f) * colsum(f)]]

\* scaler.transform(X): z = (x - mean_) / scale_ with the stored mean_ and
\* scale_.  A standardized cell is held as the integer num with
\* z = num / sqrt(div2) and div2 the same for the whole column: for a column
\* of variance 0, num = x - mean_ and div2 = 1; otherwise
\* num = n_samples * x - sum and div2 = var
StandardizeWith(scaler, X) ==
    [columns |-> X.columns,
     div2 |-> [f \in Range(X.columns) |->
                  IF scaler.var[f] = 0 THEN 1 ELSE scaler.var[f]],
     rows |-> [c \in DOMAIN X.rows |-> [f \in Range(X.columns) |->
                  IF scaler.var[f] = 0
                  THEN X.rows[c][f] - scaler.sum[f] \div scaler.n_samples
                  ELSE scaler.n_samples * X.rows[c][f] - scaler.sum[f]]]]

\* fit_transform in the place of transform: the scaler is fitted again on the
\* rows it is given
ScalerFitTransform(scaler, X) == StandardizeWith(FitScaler(X), X)

\* line 55: rfm_normalized = scaler.transform(rfm), with the loaded scaler
ScalerTransform(scaler, X) == StandardizeWith(scaler, X)

\* the weight of a column in a squared distance: the product of div2 over
\* the other columns
RECURSIVE ColumnWeight(_, _, _)
ColumnWeight(div2, columns, f) ==
    IF columns = <<>> THEN 1
    ELSE (IF Head(columns) = f THEN 1 ELSE div2[Head(columns)])
         * ColumnWeight(div2, Tail(columns), f)

\* the weights of all columns
ColumnWeights(div2, columns) ==
    [f \in Range(columns) |-> ColumnWeight(div2, columns, f)]

\* the squared Euclidean distance of a standardized row z to a centre,
\* times the positive factor den^2 * (product of div2 over all columns);
\* a centre coordinate is held as the integer ctr with
\* coordinate = ctr / (den * sqrt(div2)); w is ColumnWeights
Dist2(z, centre, den, w, columns) ==
    SumSeq([i \in DOMAIN columns |->
        w[columns[i]]
        * (den * z[columns[i]] - centre[columns[i]])
        * (den * z[columns[i]] - centre[columns[i]])])

\* the highest position among the nearest centres
NearestLast(z, centers, den, w, columns) ==
    Only({ CHOOSE j \in DOMAIN centers :
               \A k \in DOMAIN centers :
                   d[j] <= d[k] /\ (k > j => d[j] < d[k]) :
        d \in {[i \in DOMAIN centers |->
                   Dist2(z, centers[i], den, w, columns)]} })

\* the E-step of one row: the position of the nearest centre; the scan keeps
\* a centre only when it is strictly nearer, so the first of equally near
\* centres wins
Nearest(z, centers, den, w, columns) ==
    Only({ CHOOSE j \in DOMAIN centers :
               \A k \in DOMAIN centers :
                   d[j] <= d[k] /\ (k < j => d[j] < d[k]) :
        d \in {[i \in DOMAIN centers |->
                   Dist2(z, centers[i], den, w, columns)]} })

\* the labels of all rows of Z, 0-based as scikit-learn numbers clusters
AssignLabels(Z, centers, den) ==
    Only({ [c \in DOMAIN Z.rows |->
               Nearest(Z.rows[c], centers, den, w, Z.columns) - 1] :
        w \in {ColumnWeights(Z.div2, Z.columns)} })

\* the M-step: a centre is the mean of its rows; a cluster without rows
\* keeps its centre
UpdateCenters(Z, labels, centers, den) ==
    [j \in DOMAIN centers |->
        Only({ IF idx = <<>> THEN centers[j]
               ELSE [f \in Range(Z.columns) |->
                        (den \div Len(idx))
                        * SumSeq([i \in DOMAIN idx |-> Z.rows[idx[i]][f]])] :
            idx \in {SelectSeq(IndexOf(Z), LAMBDA c : labels[c] = j - 1)} })]

\* KMeans max_iter, the default
MaxIter == 300

\* the Lloyd loop: E-step and M-step until the labels repeat
RECURSIVE Lloyd(_, _, _, _, _)
Lloyd(Z, centers, labels_old, den, iter) ==
    Only({ IF iter = MaxIter
           THEN [cluster_centers |-> centers, labels |-> labels]
           ELSE Only({ IF labels = labels_old
                       THEN [cluster_centers |-> centers_new, labels |-> labels]
                       ELSE Lloyd(Z, centers_new, labels, den, iter + 1) :
                   centers_new \in {UpdateCenters(Z, labels, centers, den)} }) :
           labels \in {AssignLabels(Z, centers, den)} })

\* k-means++ seeding under random_state: the first centre is a row drawn
\* from all rows, every further centre a row drawn from the rows that lie
\* on no centre chosen so far, the first row if there is none; stream is
\* the sequence of draws the seeded generator yields
RECURSIVE InitCenters(_, _, _, _)
InitCenters(Z, n_clusters, stream, chosen) ==
    IF Len(chosen) = n_clusters THEN chosen
    ELSE LET idx == IndexOf(Z)
             free == SelectSeq(idx, LAMBDA c :
                        \A j \in DOMAIN chosen : Z.rows[c] # chosen[j])
             draw == stream[Len(chosen) + 1]
             pick == IF free = <<>> THEN idx[1]
                     ELSE free[(draw % Len(free)) + 1]
         IN  InitCenters(Z, n_clusters, stream, Append(chosen, Z.rows[pick]))

\* the seeds as centres: a coordinate is den times the cell of the row
SeedCenters(seeds, den, columns) ==
    [j \in DOMAIN seeds |-> [f \in Range(columns) |-> den * seeds[j][f]]]

\* KMeans(n_clusters, random_state, n_init='auto').fit(Z): one k-means++
\* seeding, then the Lloyd loop
KMeansFit(Z, n_clusters, stream) ==
    Only({ [n_clusters |-> n_clusters,
            n_features_in |-> Len(Z.columns),
            den |-> Factorial(Len(IndexOf(Z))),
            div2 |-> Z.div2,
            cluster_centers |-> fit.cluster_centers,
            labels |-> fit.labels] :
        fit \in {Only({ Lloyd(Z, init, [c \in DOMAIN Z.rows |-> -1],
                              Factorial(Len(IndexOf(Z))), 0) :
                    init \in {SeedCenters(InitCenters(Z, n_clusters, stream, <<>>),
                                          Factorial(Len(IndexOf(Z))),
                                          Z.columns)} })} })

\* the position of the nearest centre in the place of the cluster number
KMeansPredictPosition(kmeans, Z) ==
    Only({ [c \in DOMAIN Z.rows |->
               Nearest(Z.rows[c], kmeans.cluster_centers, kmeans.den, w,
                       Z.columns)] :
        w \in {ColumnWeights(kmeans.div2, Z.columns)} })

\* a predict whose numbering moves on after a call that returned
KMeansPredictDrifting(kmeans, Z) ==
    Only({ [c \in DOMAIN Z.rows |->
               (Nearest(Z.rows[c], kmeans.cluster_centers, kmeans.den, w,
                        Z.columns) - 1 + (IF kmLast.status = "ok" THEN 1 ELSE 0))
               % kmeans.n_clusters] :
        w \in {ColumnWeights(kmeans.div2, Z.columns)} })

\* a predict that gives equally near centres to the last of them
KMeansPredictLast(kmeans, Z) ==
    Only({ [c \in DOMAIN Z.rows |->
               NearestLast(Z.rows[c], kmeans.cluster_centers, kmeans.den, w,
                           Z.columns) - 1] :
        w \in {ColumnWeights(kmeans.div2, Z.columns)} })

\* line 56: kmeans.predict(rfm_normalized), the E-step against the stored
\* centres
KMeansPredict(kmeans, Z) ==
    Only({ [c \in DOMAIN Z.rows |->
               Nearest(Z.rows[c], kmeans.cluster_centers, kmeans.den, w,
                       Z.columns) - 1] :
        w \in {ColumnWeights(kmeans.div2, Z.columns)} })

(* ---------------------- training and prediction ------------------------ *)

KmCustomers == {"c1", "c2", "c3"}

\* the amounts of the raw transactions, counted in units of 10
KmAmounts == {1, 50, 500}

\* the raw transactions: all at one timestamp
KmTxRows ==
    {[customer_id |-> c, event |-> "transaction", time |-> 0, amount |-> a] :
        c \in KmCustomers, a \in KmAmounts}

\* rows of one timestamp are listed by customer and amount
RowRank(r) ==
    (CHOOSE i \in DOMAIN CustomerOrder : CustomerOrder[i] = r.customer_id)
        * (Max(KmAmounts) + 1) + r.amount

KmTables ==
    {s \in SeqsUpTo(KmTxRows, MaxTx) :
        \A i \in DOMAIN s : \A j \in DOMAIN s :
            i < j => RowRank(s[i]) <= RowRank(s[j])}

\* n_clusters as the callers pass it; 4 is the default and the value
\* train_model.train_kmeans_model uses
NClusterChoices == {2, 3, 4}

\* the (n_clusters, columns of rfm_data) a caller of train_and_save_models
\* passes: the RFM table, or, for two clusters, a table without recency
TrainerCalls ==
    {<<k, RFMColumns>> : k \in NClusterChoices}
        \cup {<<2, <<"frequency", "monetary">> >>}

\* the (min_amount, max_amount) pairs of the amount slider
KmAmountRanges == {<<1, 50>>}

\* the sequences of draws a generator can yield for the seeding of
\* n_clusters centres among n_samples rows: draw i is a position among the
\* rows not yet taken; none is made when the fit raises before the seeding
RandomStreams(n_clusters, n_samples) ==
    IF n_samples < n_clusters THEN {NoDraws}
    ELSE {s \in [1..n_clusters -> 0..(n_samples - 1)] :
             \A i \in 1..n_clusters : s[i] <= n_samples - i}

\* random_state=None: every run draws afresh
UnseededDraws(seed, n_clusters, n_samples) ==
    RandomStreams(n_clusters, n_samples)

\* random_state=42: the generator is seeded with the same integer in every
\* run, so every run sees the draws of the first
SeededDraws(seed, n_clusters, n_samples) ==
    IF seed = NoDraws THEN RandomStreams(n_clusters, n_samples) ELSE {seed}

\* lines 75-79 of train_and_save_models (train_kmeans_model likewise):
\* fit_transform raises on a table without rows, KMeans.fit raises when
\* there are fewer rows than n_clusters
TrainOutcome(X, n_clusters, stream) ==
    IF Len(IndexOf(X)) = 0 \/ Len(IndexOf(X)) < n_clusters
    THEN [status |-> "ValueError", X |-> X, scaler |-> NoModel,
          kmeans |-> NoModel, rerun |-> FALSE]
    ELSE Only({ Only({ [status |-> "ok", X |-> X, scaler |-> scaler,
                        kmeans |-> KMeansFit(Z, n_clusters, stream),
                        rerun |-> FALSE] :
                    Z \in {ScalerTransform(scaler, X)} }) :
                scaler \in {FitScaler(X)} })

\* train_and_save_models(rfm_data, n_clusters) on the RFM table
\* load_and_prepare_data derives from the loaded transactions: fit, then
\* the two dumps; a raise in the fit ends the run before any dump
TrainAndSaveModels ==
    /\ \E rfm_data \in {AsFrame(TrainRFM(kmTx), kmColumns)} :
       \E stream \in SeededDraws(kmSeed, kmK, Len(IndexOf(rfm_data))) :
       \E out \in {TrainOutcome(rfm_data, kmK, stream)} :
          /\ kmFit' = [out EXCEPT !.rerun = /\ out.status = "ok"
                                             /\ kmFit.status = "ok"
                                             /\ kmFit.X = out.X]
          /\ IF out.status = "ok"
             THEN /\ kmSeed' = stream
                  /\ disk' = DumpClose(DumpOpen(
                               DumpClose(DumpOpen(disk, KmeansPath, out.kmeans),
                                         KmeansPath),
                               ScalerPath, out.scaler), ScalerPath)
             ELSE UNCHANGED <<kmSeed, disk>>
    /\ UNCHANGED <<kmTx, kmK, kmColumns, kmLast>>
    /\ UNCHANGED <<trainPc, runs, modelCache, filterCache, dataCache, pc, frame,
                   ret, obs>>
    /\ UNCHANGED <<offerVars, rfmVars, pfVars, clvVars, fcVars>>

\* check_array and the feature name check of scaler.transform
TransformStatus(scaler, X) ==
    IF X.columns # scaler.feature_names_in \/ DOMAIN X.rows = {}
    THEN "ValueError" ELSE "ok"

\* the feature count check of kmeans.predict
PredictStatus(kmeans, Z) ==
    IF Len(Z.columns) # kmeans.n_features_in THEN "ValueError" ELSE "ok"

\* a call of apply_customer_segmentation that raised status; converted
\* tells whether line 42 had run
Raised(status, df, mcache, converted) ==
    [ret |-> [NoReturn EXCEPT !.status = status, !.rows = df.rows],
     modelCache |-> mcache, converted |-> converted]

\* lines 41-58 of apply_customer_segmentation, with the two loaded models:
\* the time column is converted in place, the RFM table is derived,
\* standardized and assigned
ApplyLoaded(df, scaler, kmeans, mcache) ==
    Only({ IF TransformStatus(scaler, X) # "ok"
           THEN Raised(TransformStatus(scaler, X), df, mcache, TRUE)
           ELSE Only({ IF PredictStatus(kmeans, Z) # "ok"
                       THEN Raised(PredictStatus(kmeans, Z), df, mcache, TRUE)
                       ELSE [ret |-> [status |-> "ok", rows |-> df.rows, X |-> X,
                                      scaler |-> scaler, kmeans |-> kmeans,
                                      cluster |-> KMeansPredict(kmeans, Z),
                                      repeat |-> FALSE],
                             modelCache |-> mcache, converted |-> TRUE] :
                   Z \in {ScalerTransform(scaler, X)} }) :
        X \in {AsFrame(ApplyRFM(df), RFMColumns)} })

\* the body of apply_customer_segmentation(transaction_df), lines 38-58, as
\* it runs when st.cache_data has no entry for the call: the two models are
\* loaded, then the table is built.  rows, scaler and kmeans of the result
\* record the rows passed and the objects it was computed with
ApplyOutcome(df, mcache, dsk) ==
    Only({ IF r[1].status # "ok"
           THEN Raised(r[1].status, df, r[1].cache, FALSE)
           ELSE IF r[2].status # "ok"
           THEN Raised(r[2].status, df, r[2].cache, FALSE)
           ELSE ApplyLoaded(df, r[1].model, r[2].model, r[2].cache) :
        r \in {Only({ <<r1, LoadModel(KmeansPath, r1.cache, dsk)>> :
                  r1 \in {LoadModel(ScalerPath, mcache, dsk)} })} })

\* the call that returned now had the features and the model objects of
\* the call that returned before it
SameCall(before, now) ==
    /\ before.status = "ok"
    /\ now.status = "ok"
    /\ now.X = before.X
    /\ now.scaler = before.scaler
    /\ now.kmeans = before.kmeans

\* a page calls apply_customer_segmentation on the loaded table itself
ApplyCustomerSegmentation ==
    /\ \E out \in {ApplyOutcome(kmTx, modelCache, disk)} :
          /\ kmLast' = [out.ret EXCEPT !.repeat = SameCall(kmLast, out.ret)]
          /\ modelCache' = out.modelCache
          /\ kmTx' = IF out.converted THEN ToDatetime(kmTx) ELSE kmTx
    /\ UNCHANGED <<kmK, kmColumns, kmSeed, kmFit>>
    /\ UNCHANGED <<disk, trainPc, runs, filterCache, dataCache, pc, frame, ret,
                   obs>>
    /\ UNCHANGED <<offerVars, rfmVars, pfVars, clvVars, fcVars>>

\* a page calls it on the table filtered by amount, a new table
ApplyCustomerSegmentationFiltered(min_amount, max_amount) ==
    /\ \E df \in {PreprocessTransactionDataBody(kmTx, min_amount, max_amount)} :
       \E out \in {ApplyOutcome(df, modelCache, disk)} :
          /\ kmLast' = [out.ret EXCEPT !.repeat = SameCall(kmLast, out.ret)]
          /\ modelCache' = out.modelCache
    /\ UNCHANGED <<kmTx, kmK, kmColumns, kmSeed, kmFit>>
    /\ UNCHANGED <<disk, trainPc, runs, filterCache, dataCache, pc, frame, ret,
                   obs>>
    /\ UNCHANGED <<offerVars, rfmVars, pfVars, clvVars, fcVars>>

InitKM ==
    /\ \E rows \in KmTables : kmTx = [timeType |-> "int", rows |-> rows]
    /\ \E call \in TrainerCalls : kmK = call[1] /\ kmColumns = call[2]
    /\ kmSeed = NoDraws
    /\ kmFit = NoFit
    /\ kmLast = NoReturn
    /\ InitModel
    /\ IdleOffer
    /\ IdleRFM
    /\ IdlePerf
    /\ IdleCLV
    /\ IdleForecast

NextKM ==
    \/ TrainAndSaveModels
    \/ ApplyCustomerSegmentation
    \/ \E a \in KmAmountRanges : ApplyCustomerSegmentationFiltered(a[1], a[2])

SpecKMeans == InitKM /\ [][NextKM]_vars

(* ------------------------ performance aggregation ---------------------- *)

OfferTypes == {"bogo", "discount"}

\* the channels column as the data file holds it: the text of a list
ChannelLists == {<<>>, <<"email">>, <<"email", "mobile">>}

ChannelNames == {"email", "mobile"}

\* what explode puts in the channels cell of a row with an empty list (NaN)
NoChannel == "NaN"

\* event and offer_success as preprocess_offer_events leaves them: only a
\* completed event can carry a true offer_success
PerfEvents ==
    {<<"offer received", FALSE>>, <<"offer completed", FALSE>>,
     <<"offer completed", TRUE>>}

\* the rows of an offer table with the cluster of the customer merged in;
\* NaN for a customer without transactions
PerfRows ==
    {[offer_type |-> t, event |-> e[1], offer_success |-> e[2], cluster |-> k,
      channels |-> ch] :
        t \in OfferTypes, e \in PerfEvents, k \in {0, NaN}, ch \in ChannelLists}

\* a rank of the rows, to list the tables that differ in more than the order
PerfRank(r) ==
    (((IF r.offer_type = "bogo" THEN 0 ELSE 1) * 3
       + (IF r.event = "offer received" THEN 0
          ELSE IF r.offer_success THEN 2 ELSE 1)) * 2
       + (IF r.cluster = NaN THEN 1 ELSE 0)) * 3
       + Len(r.channels)

PerfTables ==
    {s \in SeqsUpTo(PerfRows, MaxOffers) :
        \A i \in DOMAIN s : \A j \in DOMAIN s :
            i < j => PerfRank(s[i]) <= PerfRank(s[j])}

\* line 125: transaction_df['channels'] = transaction_df['channels'].apply(eval),
\* in place: eval turns the text of a list into the list, and raises
\* TypeError on a cell that holds a list already; a table without rows
\* makes no call of eval
EvalChannels(df) ==
    IF df.rows = <<>> THEN [status |-> "ok", df |-> df]
    ELSE IF df.channelsType = "str"
    THEN [status |-> "ok", df |-> [df EXCEPT !.channelsType = "list"]]
    ELSE [status |-> "TypeError", df |-> df]

\* the rows explode makes of row i: one per element of the list, all other
\* cells repeated, the index label kept; one row with NaN for an empty list
ExplodeRow(r, i) ==
    IF r.channels = <<>>
    THEN << [index |-> i, offer_type |-> r.offer_type, event |-> r.event,
             offer_success |-> r.offer_success, cluster |-> r.cluster,
             channels |-> NoChannel] >>
    ELSE [k \in 1..Len(r.channels) |->
             [index |-> i, offer_type |-> r.offer_type, event |-> r.event,
              offer_success |-> r.offer_success, cluster |-> r.cluster,
              channels |-> r.channels[k]]]

RECURSIVE ExplodeFrom(_, _)
ExplodeFrom(rows, i) ==
    IF i > Len(rows) THEN <<>>
    ELSE ExplodeRow(rows[i], i) \o ExplodeFrom(rows, i + 1)

\* an explode that keeps one row per event, with the first of its channels
ExplodeFirstOnly(rows) ==
    [i \in DOMAIN rows |-> ExplodeRow(rows[i], i)[1]]

\* line 126: transaction_df.explode('channels')
Explode(rows) == ExplodeFrom(rows, 1)

\* a count that counts the true cells only
CountTrue(group) ==
    SumSeq([i \in DOMAIN group |-> IF group[i].offer_success THEN 1 ELSE 0])

\* ['offer_success'].agg('count'): the cells that are not null; offer_success
\* is a comparison result and never null
Count(group) == Len(group)

\* ['offer_success'].mean() of a group: the sum of the booleans over their
\* number, held as the fraction num / den
Mean(group) ==
    [num |-> SumSeq([i \in DOMAIN group |->
                        IF group[i].offer_success THEN 1 ELSE 0]),
     den |-> Len(group)]

\* groupby('offer_type'): key -> rows of the group
GroupByOfferType(rows) ==
    [k \in {rows[i].offer_type : i \in DOMAIN rows} |->
        SelectSeq(rows, LAMBDA r : r.offer_type = k)]

\* groupby('cluster'): rows with a NaN key are dropped
GroupByCluster(rows) ==
    [k \in {rows[i].cluster : i \in DOMAIN rows} \ {NaN} |->
        SelectSeq(rows, LAMBDA r : r.cluster = k)]

\* groupby('channels') of an exploded table: rows with a NaN key are dropped
GroupByChannels(rows) ==
    [k \in {rows[i].channels : i \in DOMAIN rows} \ {NoChannel} |->
        SelectSeq(rows, LAMBDA r : r.channels = k)]

\* groupby(['offer_type', 'cluster']): rows with a NaN in the key are dropped
GroupByOfferTypeAndCluster(rows) ==
    [k \in {<<rows[i].offer_type, rows[i].cluster>> :
               i \in {j \in DOMAIN rows : rows[j].cluster # NaN}} |->
        SelectSeq(rows, LAMBDA r : r.offer_type = k[1] /\ r.cluster = k[2])]

\* the mean of every group
MeanByGroup(groups) == [k \in DOMAIN groups |-> Mean(groups[k])]

\* lines 63-64 of analyze_offer_performance
AnalyzeOfferPerformanceBody(rows) ==
    [k \in DOMAIN GroupByOfferTypeAndCluster(rows) |->
        [conversion_rate |-> Mean(GroupByOfferTypeAndCluster(rows)[k]),
         total_offers |-> Count(GroupByOfferTypeAndCluster(rows)[k])]]

\* the keys idxmax can return: those of a greatest rate (sort_values does
\* not fix the order of equal rates)
IdxMax(rates) ==
    {k \in DOMAIN rates :
        \A j \in DOMAIN rates :
            rates[k].num * rates[j].den >= rates[j].num * rates[k].den}

\* preprocess_channels(transaction_df), lines 124-127: the caller's table is
\* changed in place by line 125, the exploded table is a new one
PreprocessChannels ==
    /\ \E e \in {EvalChannels(pfDf)} :
          /\ pfDf' = e.df
          /\ IF e.status = "ok"
             THEN /\ pfView' = Explode(pfDf.rows)
                  /\ pfOut' = [fn |-> "preprocess_channels", status |-> "ok",
                               args |-> pfDf.rows, value |-> Explode(pfDf.rows)]
             ELSE /\ pfView' = pfView
                  /\ pfOut' = [fn |-> "preprocess_channels", status |-> e.status,
                               args |-> pfDf.rows, value |-> <<>>]
    /\ UNCHANGED <<modelVars, offerVars, rfmVars, kmVars, clvVars, fcVars>>

\* get_channel_success_rate(transaction_df), lines 131-135
GetChannelSuccessRate ==
    /\ \E e \in {EvalChannels(pfDf)} :
          /\ pfDf' = e.df
          /\ pfOut' = [fn |-> "get_channel_success_rate", status |-> e.status,
                       args |-> pfDf.rows,
                       value |-> IF e.status = "ok"
                                 THEN MeanByGroup(GroupByChannels(Explode(pfDf.rows)))
                                 ELSE <<>>]
    /\ UNCHANGED pfView
    /\ UNCHANGED <<modelVars, offerVars, rfmVars, kmVars, clvVars, fcVars>>

\* analyze_offer_performance(df) on a table with the cluster column: the
\* table as loaded or the exploded one
AnalyzeOfferPerformance ==
    /\ \E rows \in {pfDf.rows, pfView} :
          pfOut' = [fn |-> "analyze_offer_performance", status |-> "ok",
                    args |-> rows, value |-> AnalyzeOfferPerformanceBody(rows)]
    /\ UNCHANGED <<pfDf, pfView>>
    /\ UNCHANGED <<modelVars, offerVars, rfmVars, kmVars, clvVars, fcVars>>

\* lines 34-45 of generate_insights on the exploded table with the cluster
\* column: the three groupby means and the key of the greatest of each;
\* idxmax raises ValueError on a result without groups
GenerateInsights ==
    /\ pfView # NoView
    /\ LET success_rate == MeanByGroup(GroupByOfferType(pfView))
           conversion_by_segment == MeanByGroup(GroupByCluster(pfView))
           channel_success == MeanByGroup(GroupByChannels(pfView))
       IN  IF \/ DOMAIN success_rate = {}
              \/ DOMAIN conversion_by_segment = {}
              \/ DOMAIN channel_success = {}
           THEN pfOut' = [fn |-> "generate_insights", status |-> "ValueError",
                          args |-> pfView, value |-> <<>>]
           ELSE \E top_offer_type \in IdxMax(success_rate),
                   top_segment \in IdxMax(conversion_by_segment),
                   top_channel \in IdxMax(channel_success) :
                   pfOut' = [fn |-> "generate_insights", status |-> "ok",
                             args |-> pfView,
                             value |-> [success_rate |-> success_rate,
                                        conversion_by_segment |->
                                            conversion_by_segment,
                                        channel_success |-> channel_success,
                                        top_offer_type |-> top_offer_type,
                                        top_segment |-> top_segment,
                                        top_channel |-> top_channel]]
    /\ UNCHANGED <<pfDf, pfView>>
    /\ UNCHANGED <<modelVars, offerVars, rfmVars, kmVars, clvVars, fcVars>>

\* the number of rows of an event type: df[df['event'] == e].shape[0]
EventCount(rows, e) == Len(SelectSeq(rows, LAMBDA r : r.event = e))

\* app.py lines 165-166: completed / received, a division of two Python
\* ints, which raises ZeroDivisionError on a zero divisor
OverallConversionRate(rows) ==
    IF EventCount(rows, "offer received") = 0
    THEN [status |-> "ZeroDivisionError", value |-> <<>>]
    ELSE [status |-> "ok",
          value |-> [num |-> EventCount(rows, "offer completed"),
                     den |-> EventCount(rows, "offer received")]]

\* show_home_page(offer_events, transaction_events), the conversion card
ShowHomePage ==
    /\ \E r \in {OverallConversionRate(pfDf.rows)} :
          pfOut' = [fn |-> "show_home_page", status |-> r.status,
                    args |-> pfDf.rows, value |-> r.value]
    /\ UNCHANGED <<pfDf, pfView>>
    /\ UNCHANGED <<modelVars, offerVars, rfmVars, kmVars, clvVars, fcVars>>

InitPerf ==
    /\ \E rows \in PerfTables : pfDf = [channelsType |-> "str", rows |-> rows]
    /\ pfView = NoView
    /\ pfOut = NoResult
    /\ InitModel
    /\ IdleOffer
    /\ IdleRFM
    /\ IdleKM
    /\ IdleCLV
    /\ IdleForecast

NextPerf ==
    \/ PreprocessChannels
    \/ GetChannelSuccessRate
    \/ AnalyzeOfferPerformance
    \/ GenerateInsights
    \/ ShowHomePage

SpecPerf == InitPerf /\ [][NextPerf]_vars

(* ------------------- claims on the persisted model --------------------- *)

WholeFile(run) == [exists |-> TRUE, model |-> [run |-> run], whole |-> TRUE]

\* C1: every computed apply call standardizes and assigns with a scaler and
\* a cluster model of the same training run, whatever the interleaving of
\* the trainer's two dumps with the two loads of the call.
C1_ScalerAndClusterModelPaired == obs.scaler.run = obs.kmeans.run

\* C2: at every point during and after a training run, a failed run
\* included, the two model files are the whole pair of one run (or both
\* absent before the first run): never a mixture, never a file in writing.
C2_ArtifactSwappedAtomically ==
    \/ \A p \in ModelPaths : disk[p] = NoFile
    \/ \E r \in 1..runs : \A p \in ModelPaths : disk[p] = WholeFile(r)

\* C3: once load_model has loaded a path, the object it holds for that path
\* never changes for the rest of the process, whatever is written to the
\* file, and every computed apply call works with exactly the held objects.
C3_LoadedOnceImmutable ==
    [][ /\ \A p \in ModelPaths :
              modelCache[p] # NotLoaded => modelCache'[p] = modelCache[p]
        /\ obs' # obs => /\ obs'.scaler = modelCache'[ScalerPath]
                         /\ obs'.kmeans = modelCache'[KmeansPath] ]_vars

\* an apply call was computed with the objects of run 1, served by
\* load_model while both files on disk were whole files of run 2
C3_Witness ==
    /\ obs.scaler.run = 1
    /\ obs.kmeans.run = 1
    /\ \A p \in ModelPaths : obs.disk[p] = WholeFile(2)

Perms(n) == {f \in [1..n -> 1..n] : \A i, j \in 1..n : f[i] = f[j] => i = j}

\* C5: an offer_id group carries a true offer_success iff it has a completed
\* event whose time is within duration days (inclusive) of the earliest event
\* of the group.
C5_GroupSuccessWithinDuration ==
    offerOut.done =>
        \A o \in Offers :
            (\E i \in GroupOf(offerDf.rows, o) : offerDf.rows[i].offer_success)
            <=>
            (\E i \in GroupOf(offerDf.rows, o) :
                /\ offerDf.rows[i].event = "offer completed"
                /\ offerDf.rows[i].time - EarliestOfGroup(offerDf.rows, o)
                      <= TimedeltaDays(offerDf.rows[i].duration))

\* C6: in the returned table all rows of one offer_id group carry the same
\* offer_success.
C6_SuccessBroadcastOverGroup ==
    offerOut.done =>
        \A i, j \in DOMAIN offerOut.df.rows :
            offerOut.df.rows[i].offer_id = offerOut.df.rows[j].offer_id
            => offerOut.df.rows[i].offer_success = offerOut.df.rows[j].offer_success

\* C7: every reordering of the rows of the table gives each row the
\* offer_success it got in the order the table was passed in.
C7_SuccessIndependentOfRowOrder ==
    offerOut.done =>
        \A p \in Perms(Len(offerDf.rows)) :
            LET shuffled == [i \in DOMAIN offerDf.rows |-> offerDf.rows[p[i]]]
            IN  \A i \in DOMAIN shuffled :
                    OfferSuccess(shuffled)[i] = offerDf.rows[p[i]].offer_success

\* C8: the offer_success of the rows of a customer is what the normalizer
\* computes from that customer's rows alone, whatever rows the other
\* customers have for the same offer_id.
C8_SuccessIndependentOfOtherCustomers ==
    offerOut.done =>
        \A c \in Customers :
            LET own   == SelectSeq(offerDf.rows, LAMBDA r : r.customer_id = c)
                alone == WithOfferSuccess([offerDf EXCEPT !.rows = own]).rows
            IN  alone = own

(* ------------------- claims on the feature derivation ------------------ *)

\* the positions of the rows of a customer
RowsOfCustomer(rows, c) == {i \in DOMAIN rows : rows[i].customer_id = c}

RECURSIVE TotalAmount(_, _)
\* the sum of the amounts of the rows at the positions S
TotalAmount(rows, S) ==
    IF S = {} THEN 0
    ELSE LET i == CHOOSE j \in S : TRUE
         IN  rows[i].amount + TotalAmount(rows, S \ {i})

\* recency r is the whole number of days between the latest row of the
\* table and the latest row of the customer
WholeDaysBehindLatest(rows, c, r) ==
    \E i \in DOMAIN rows, j \in RowsOfCustomer(rows, c) :
        /\ \A k \in DOMAIN rows : rows[k].time <= rows[i].time
        /\ \A k \in RowsOfCustomer(rows, c) : rows[k].time <= rows[j].time
        /\ r * SecondsPerDay <= rows[i].time - rows[j].time
        /\ rows[i].time - rows[j].time < (r + 1) * SecondsPerDay

\* C9: the recency of every customer of the RFM table is the whole number
\* of days from the customer's latest transaction to the latest transaction
\* of the table passed to the feature builder - the filtered table at apply
\* time, the loaded table at training time.
C9_RecencyFromLatestOfPassedTable ==
    /\ rfmOut.applyDone =>
          \A c \in DOMAIN rfmOut.apply :
              WholeDaysBehindLatest(txDf.rows, c, rfmOut.apply[c].recency)
    /\ rfmOut.trainDone =>
          \A c \in DOMAIN rfmOut.train :
              WholeDaysBehindLatest(txLog.rows, c, rfmOut.train[c].recency)

\* the amount filter removed the latest transaction of the log, and a
\* customer of the filtered table lies at least one day behind its latest
C9_Witness ==
    /\ rfmOut.applyDone
    /\ txPc = "filtered"
    /\ \E i \in DOMAIN txLog.rows : \A j \in DOMAIN txDf.rows :
          ToDatetime(txLog).rows[i].time > txDf.rows[j].time
    /\ \E c \in DOMAIN rfmOut.apply : rfmOut.apply[c].recency >= 1

RFMVectorInRange(rows, c, v) ==
    /\ v.recency >= 0
    /\ v.frequency >= 0
    /\ v.frequency = Cardinality(RowsOfCustomer(rows, c))
    /\ v.monetary >= 0
    /\ v.monetary = IF TotalAmount(rows, RowsOfCustomer(rows, c)) < 0 THEN 0
                    ELSE TotalAmount(rows, RowsOfCustomer(rows, c))

\* C10: in every RFM vector, at apply time and at training time, recency is
\* not negative, frequency is the number of rows of the customer, and
\* monetary is the sum of the customer's amounts, or zero when that sum is
\* negative.
C10_RFMVectorsNonNegative ==
    /\ rfmOut.applyDone =>
          \A c \in DOMAIN rfmOut.apply :
              RFMVectorInRange(txDf.rows, c, rfmOut.apply[c])
    /\ rfmOut.trainDone =>
          \A c \in DOMAIN rfmOut.train :
              RFMVectorInRange(txLog.rows, c, rfmOut.train[c])

\* a customer whose refunds exceed the purchases got monetary zero, next to
\* a customer with a positive sum, in both derivations
C10_Witness ==
    /\ rfmOut.applyDone
    /\ rfmOut.trainDone
    /\ \E c, d \in DOMAIN rfmOut.apply :
          /\ TotalAmount(txDf.rows, RowsOfCustomer(txDf.rows, c)) < 0
          /\ rfmOut.apply[c].monetary = 0
          /\ rfmOut.train[c].monetary = 0
          /\ rfmOut.apply[d].monetary > 0
          /\ rfmOut.apply[d].frequency >= 2

(* ----------------- claims on training and prediction ------------------- *)

\* the customers of the rows of a table
CustomersOf(rows) == {rows[i].customer_id : i \in DOMAIN rows}

\* C11: for every trained model with K clusters and every table of
\* transactions, a call of apply that returns gives exactly one cluster to
\* every distinct customer_id of the table and to nothing else, and every
\* cluster is a whole number from 0 to K - 1.
C11_OneClusterPerCustomerInRange ==
    kmLast.status = "ok" =>
        /\ DOMAIN kmLast.cluster = CustomersOf(kmLast.rows)
        /\ \A c \in DOMAIN kmLast.cluster :
              kmLast.cluster[c] \in 0..(kmLast.kmeans.n_clusters - 1)

\* a call returned for a table with more rows than customers, and gave one
\* customer the lowest and one the highest cluster number of the model
C11_Witness ==
    /\ kmLast.status = "ok"
    /\ Len(kmLast.rows) > Cardinality(CustomersOf(kmLast.rows))
    /\ \E c, d \in DOMAIN kmLast.cluster :
          /\ kmLast.cluster[c] = 0
          /\ kmLast.cluster[d] = kmLast.kmeans.n_clusters - 1

StandardizedDist2(x, scaler, kmeans, j) ==
    SumSeq([i \in DOMAIN scaler.feature_names_in |->
        LET f == scaler.feature_names_in[i]
            num == IF scaler.var[f] = 0
                   THEN x[f] - scaler.sum[f] \div scaler.n_samples
                   ELSE scaler.n_samples * x[f] - scaler.sum[f]
            diff == kmeans.den * num - kmeans.cluster_centers[j][f]
        IN  ColumnWeight(kmeans.div2, scaler.feature_names_in, f) * diff * diff])

\* C13: a call of apply that returns has given every customer the cluster
\* whose centre is nearest, in Euclidean distance, to the customer's
\* features standardized with the mean and scale of the loaded scaler, and
\* of equally near centres the one with the lowest cluster number.
C13_NearestCentreOfStoredScaler ==
    kmLast.status = "ok" =>
        \A c \in DOMAIN kmLast.cluster :
            \A k \in DOMAIN kmLast.kmeans.cluster_centers :
                LET j  == kmLast.cluster[c] + 1
                    dj == StandardizedDist2(kmLast.X.rows[c], kmLast.scaler,
                                            kmLast.kmeans, j)
                    dk == StandardizedDist2(kmLast.X.rows[c], kmLast.scaler,
                                            kmLast.kmeans, k)
                IN  dj <= dk /\ (k < j => dj < dk)

\* a call returned for features other than those the scaler was fitted on,
\* with customers in different clusters
C13_Witness ==
    /\ kmLast.status = "ok"
    /\ kmFit.status = "ok"
    /\ kmLast.scaler = kmFit.scaler
    /\ kmLast.X # kmFit.X
    /\ FitScaler(kmLast.X) # kmLast.scaler
    /\ \E c, d \in DOMAIN kmLast.cluster : kmLast.cluster[c] # kmLast.cluster[d]

\* C14: a call of apply that loads the files a training run wrote and gets
\* the features that run was fitted on gives every customer the cluster the
\* fit gave it.
C14_PredictOnTrainingDataGivesFitLabels ==
    (/\ kmLast.status = "ok"
     /\ kmFit.status = "ok"
     /\ kmLast.scaler = kmFit.scaler
     /\ kmLast.kmeans = kmFit.kmeans
     /\ kmLast.X = kmFit.X)
    => kmLast.cluster = kmFit.kmeans.labels

\* a call returned on the training features of a three-customer fit whose
\* clusters are not all the same
C14_Witness ==
    /\ kmLast.status = "ok"
    /\ kmFit.status = "ok"
    /\ kmLast.scaler = kmFit.scaler
    /\ kmLast.kmeans = kmFit.kmeans
    /\ kmLast.X = kmFit.X
    /\ DOMAIN kmLast.cluster = KmCustomers
    /\ \E c, d \in DOMAIN kmLast.cluster : kmLast.cluster[c] # kmLast.cluster[d]

\* a run fitted two clusters on three customers who spent 10, 500 and 5000
\* in one transaction each, all at one timestamp
ExampleFit(fit) ==
    /\ fit.status = "ok"
    /\ fit.kmeans.n_clusters = 2
    /\ DOMAIN fit.X.rows = KmCustomers
    /\ \A c \in KmCustomers : fit.X.rows[c]["frequency"] = 1
    /\ fit.X.rows["c1"]["monetary"] = 1
    /\ fit.X.rows["c2"]["monetary"] = 50
    /\ fit.X.rows["c3"]["monetary"] = 500

\* C15: a training run for two clusters on three customers who spent 10,
\* 500 and 5000 at one timestamp puts the two smaller spenders in one
\* cluster and the largest alone, and a run that follows a run on the same
\* table gives every customer the cluster number that run gave it.
C15_SeededTrainingReproducible ==
    [][ExampleFit(kmFit') =>
          /\ kmFit'.kmeans.labels["c1"] = kmFit'.kmeans.labels["c2"]
          /\ kmFit'.kmeans.labels["c2"] # kmFit'.kmeans.labels["c3"]
          /\ kmFit'.rerun => kmFit'.kmeans.labels = kmFit.kmeans.labels]_vars

\* the example was fitted by a run that followed a run on the same table
C15_Witness ==
    /\ ExampleFit(kmFit)
    /\ kmFit.rerun

\* the model files are missing, or the loaded scaler was fitted on other
\* columns than those of the RFM table of apply
ArtifactMissingOrMismatched ==
    \/ \E p \in ModelPaths : modelCache[p] = NotLoaded /\ ~disk[p].exists
    \/ /\ modelCache[ScalerPath] # NotLoaded
       /\ modelCache[ScalerPath].feature_names_in # RFMColumns

\* C16: a call of apply that finds no model files, or a scaler fitted on
\* other features than it derives, ends with ModelMismatchError and returns
\* no clusters.
C16_MismatchRaisesModelMismatchError ==
    (kmLast.status # "none" /\ ArtifactMissingOrMismatched) =>
        /\ kmLast.status = "ModelMismatchError"
        /\ kmLast.cluster = <<>>

\* C17: a training run on fewer distinct customers than n_clusters ends
\* with InsufficientDataError and leaves the model files as they were.
C17_TooFewCustomersRaisesInsufficientData ==
    [][(/\ kmFit' # kmFit
        /\ Len(IndexOf(kmFit'.X)) < kmK)
       => /\ kmFit'.status = "InsufficientDataError"
          /\ disk' = disk]_vars

(* --------------- claims on the performance aggregation ----------------- *)

\* the positions of the exploded rows made of row i that carry channel ch
ExplodedOf(exploded, i, ch) ==
    {j \in DOMAIN exploded : exploded[j].index = i /\ exploded[j].channels = ch}

\* C18: for an offer event with n channels, the exploded table that feeds
\* the channel aggregation has exactly n rows with a channel, one for each
\* channel of the event, each with the offer_success of the event; the
\* success rate of a channel counts every event that has the channel once,
\* with its whole offer_success.
C18_OneRowPerChannelFullSuccess ==
    /\ (pfOut.fn = "preprocess_channels" /\ pfOut.status = "ok") =>
          /\ \A i \in DOMAIN pfOut.args : \A ch \in ChannelNames :
                Cardinality(ExplodedOf(pfOut.value, i, ch))
                    = IF ch \in {pfOut.args[i].channels[k] :
                                    k \in DOMAIN pfOut.args[i].channels}
                      THEN 1 ELSE 0
          /\ \A j \in DOMAIN pfOut.value :
                pfOut.value[j].channels # NoChannel =>
                    /\ pfOut.value[j].index \in DOMAIN pfOut.args
                    /\ pfOut.value[j].offer_success
                          = pfOut.args[pfOut.value[j].index].offer_success
    /\ (pfOut.fn = "get_channel_success_rate" /\ pfOut.status = "ok") =>
          /\ DOMAIN pfOut.value
                = {ch \in ChannelNames : \E i \in DOMAIN pfOut.args :
                      \E k \in DOMAIN pfOut.args[i].channels :
                          pfOut.args[i].channels[k] = ch}
          /\ \A ch \in DOMAIN pfOut.value :
                /\ pfOut.value[ch].den
                      = Cardinality({i \in DOMAIN pfOut.args :
                            \E k \in DOMAIN pfOut.args[i].channels :
                                pfOut.args[i].channels[k] = ch})
                /\ pfOut.value[ch].num
                      = Cardinality({i \in DOMAIN pfOut.args :
                            /\ pfOut.args[i].offer_success
                            /\ \E k \in DOMAIN pfOut.args[i].channels :
                                  pfOut.args[i].channels[k] = ch})

\* preprocess_channels returned for a table with a successful event on
\* email and mobile, which has two rows in the exploded table, next to an
\* event on email only
C18_Witness ==
    /\ pfOut.fn = "preprocess_channels"
    /\ pfOut.status = "ok"
    /\ \E i, j \in DOMAIN pfOut.args :
          /\ pfOut.args[i].channels = <<"email", "mobile">>
          /\ pfOut.args[i].offer_success
          /\ Cardinality({k \in DOMAIN pfOut.value : pfOut.value[k].index = i}) = 2
          /\ pfOut.args[j].channels = <<"email">>

\* the positions of the rows of a table that satisfy Where
RowsWhere(rows, Where(_)) == {i \in DOMAIN rows : Where(rows[i])}

\* rate is the mean of offer_success over the rows at the positions S
IsMeanOver(rate, rows, S) ==
    /\ rate.den = Cardinality(S)
    /\ rate.num = Cardinality({i \in S : rows[i].offer_success})
    /\ Cardinality(S) > 0 => (0 <= rate.num /\ rate.num <= rate.den)

\* C19: in every group of an aggregation by offer_type and cluster,
\* total_offers is the number of rows of the group and conversion_rate the
\* mean of offer_success over them; the rates by offer_type, by cluster and
\* by channel are the means over the rows of their groups; every rate of a
\* group with rows lies between 0 and 1.
C19_RateIsMeanCountIsRows ==
    /\ pfOut.fn = "analyze_offer_performance" =>
          \A k \in DOMAIN pfOut.value :
              LET S == RowsWhere(pfOut.args,
                           LAMBDA r : r.offer_type = k[1] /\ r.cluster = k[2])
              IN  /\ pfOut.value[k].total_offers = Cardinality(S)
                  /\ IsMeanOver(pfOut.value[k].conversion_rate, pfOut.args, S)
    /\ (pfOut.fn = "generate_insights" /\ pfOut.status = "ok") =>
          /\ \A k \in DOMAIN pfOut.value.success_rate :
                IsMeanOver(pfOut.value.success_rate[k], pfOut.args,
                           RowsWhere(pfOut.args, LAMBDA r : r.offer_type = k))
          /\ \A k \in DOMAIN pfOut.value.conversion_by_segment :
                IsMeanOver(pfOut.value.conversion_by_segment[k], pfOut.args,
                           RowsWhere(pfOut.args, LAMBDA r : r.cluster = k))
          /\ \A k \in DOMAIN pfOut.value.channel_success :
                IsMeanOver(pfOut.value.channel_success[k], pfOut.args,
                           RowsWhere(pfOut.args, LAMBDA r : r.channels = k))

\* analyze_offer_performance returned, for an exploded table, a group of
\* three rows of which some but not all are successful
C19_Witness ==
    /\ pfOut.fn = "analyze_offer_performance"
    /\ pfOut.args = pfView
    /\ \E k \in DOMAIN pfOut.value :
          /\ pfOut.value[k].total_offers = 3
          /\ pfOut.value[k].conversion_rate.num >= 1
          /\ pfOut.value[k].conversion_rate.num < pfOut.value[k].conversion_rate.den

\* C20: the conversion card of a table without received events reports NaN:
\* the computation returns, and what it returns is no number.
C20_NoReceivedEventsGivesNaN ==
    (/\ pfOut.fn = "show_home_page"
     /\ \A i \in DOMAIN pfOut.args : pfOut.args[i].event # "offer received")
    => /\ pfOut.status = "ok"
       /\ pfOut.value = NaN

(* ----------------------- lifetime-value estimator --------------------- *)

ClvAmounts == {5, 20}

\* the age cell of a transaction row: zero, thirty, or missing
ClvAges == {0, 30, NaN}

ClvRows ==
    {[customer_id |-> c, amount |-> a, age |-> g] :
        c \in Customers, a \in ClvAmounts, g \in ClvAges}

\* 'age': 'mean' over the ages of the group that are given, kept as the
\* fraction sum / count; NaN (known FALSE) for a group without any age
MeanAge(rows, c) ==
    LET known == SelectSeq(GroupRows(rows, c), LAMBDA r : r.age # NaN)
    IN  [known |-> known # <<>>,
         sum   |-> SumSeq([i \in DOMAIN known |-> known[i].age]),
         count |-> Len(known)]

\* the floating-point division total_spend / customer_age of line 106, the
\* quotient kept as the fraction num / den: NaN for a missing age, and for
\* an age of zero inf, -inf or NaN by the sign of total_spend
DivideByAge(total_spend, customer_age) ==
    IF ~customer_age.known
    THEN [kind |-> "nan", num |-> 0, den |-> 0]
    ELSE IF customer_age.sum = 0
    THEN [kind |-> IF total_spend > 0 THEN "inf"
                   ELSE IF total_spend < 0 THEN "-inf" ELSE "nan",
          num |-> 0, den |-> 0]
    ELSE [kind |-> "finite", num |-> total_spend * customer_age.count,
          den |-> customer_age.sum]

\* lines 101-107: one record per customer_id of the table
CLVTable(rows) ==
    [c \in {rows[i].customer_id : i \in DOMAIN rows} |->
        [total_spend  |-> AmountSum(rows, c),
         customer_age |-> MeanAge(rows, c),
         annual_value |-> DivideByAge(AmountSum(rows, c), MeanAge(rows, c))]]

\* analyze_customer_lifetime_value(transaction_df)
AnalyzeCustomerLifetimeValue ==
    /\ ~clvOut.done
    /\ clvOut' = [done |-> TRUE, table |-> CLVTable(clvDf)]
    /\ UNCHANGED <<clvDf, fcVars>>
    /\ UNCHANGED <<modelVars, offerVars, rfmVars, kmVars, pfVars>>

InitCLV ==
    /\ clvDf \in SeqsUpTo(ClvRows, MaxTx)
    /\ clvOut = NoCLV
    /\ InitModel
    /\ IdleOffer
    /\ IdleRFM
    /\ IdleKM
    /\ IdlePerf
    /\ IdleForecast

NextCLV == AnalyzeCustomerLifetimeValue

SpecCLV == InitCLV /\ [][NextCLV]_vars

(* ------------------- claims on the lifetime-value table ---------------- *)

\* C21: the CLV table holds a record only for customers whose customer_age
\* is given and above zero, and every record carries the finite
\* annual_value total_spend / customer_age.
C21_OnlyPositiveAgesAndFiniteValues ==
    clvOut.done =>
        \A c \in DOMAIN clvOut.table :
            LET r == clvOut.table[c]
            IN  /\ r.customer_age.known
                /\ r.customer_age.sum > 0
                /\ r.annual_value.kind = "finite"
                /\ r.annual_value.num * r.customer_age.sum
                      = r.total_spend * r.customer_age.count * r.annual_value.den

(* --------------------------- demand forecaster ------------------------ *)

\* order=(1, 1, 1): the (p, d, q) of the model
ArimaOrder == <<1, 1, 1>>

\* the day numbers a historical series may start on
FirstDays == {0, 17}

\* the transaction amount of one day (0 for a day without transactions)
DailyAmounts == {0, 7}

\* a daily series as resample('D').sum() leaves it, one point per
\* consecutive day; the index is a DatetimeIndex or holds the dates as text
DailySeries(first, values, indexType) ==
    [indexType |-> indexType,
     index     |-> [i \in DOMAIN values |-> first + i - 1],
     values    |-> values]

\* pd.date_range(start=start, periods=periods, freq='D'), as day numbers
DateRange(start, periods) == [k \in 1..periods |-> start + (k - 1)]

\* a range of dates that starts on the last historical date
ForecastIndexFromLast(index, steps) == DateRange(index[Len(index)], steps)

\* line 90: the dates of the forecast
ForecastIndex(index, steps) == DateRange(index[Len(index)] + 1, steps)

\* forecast.predicted_mean: one value per step, a function of the order,
\* of the historical values and of the step; its number is not computed
PredictedMean(values, steps) ==
    [k \in 1..steps |-> [order |-> ArimaOrder, endog |-> values, step |-> k]]

\* how lines 85-90 end. On a series without points the library raises
\* ValueError, or line 90 raises IndexError on index[-1]. On any other
\* series, however short, there is no test of its length: the likelihood
\* optimisation returns fitted results, or a linear-algebra error of the
\* library surfaces.
FitOutcomes(values) ==
    IF values = <<>>
    THEN {"ValueError", "IndexError"}
    ELSE {"ok", "LinAlgError"}

\* generate_forecast(daily_transactions, steps): the index of the caller's
\* series is converted in place (line 82) before the model is fitted
GenerateForecast ==
    /\ ~fcOut.done
    /\ \E steps \in 1..MaxSteps, outcome \in FitOutcomes(fcSeries.values) :
          /\ fcSeries' = [fcSeries EXCEPT !.indexType = "datetime"]
          /\ fcOut' =
                IF outcome = "ok"
                THEN [done |-> TRUE, status |-> "ok", steps |-> steps,
                      forecast_df |->
                          [k \in 1..steps |->
                              [date |-> ForecastIndex(fcSeries.index, steps)[k],
                               forecast |->
                                   PredictedMean(fcSeries.values, steps)[k]]],
                      historical_df |->
                          [i \in DOMAIN fcSeries.index |->
                              [date |-> fcSeries.index[i],
                               actual |-> fcSeries.values[i]]]]
                ELSE [done |-> TRUE, status |-> outcome, steps |-> steps,
                      forecast_df |-> <<>>, historical_df |-> <<>>]
    /\ UNCHANGED clvVars
    /\ UNCHANGED <<modelVars, offerVars, rfmVars, kmVars, pfVars>>

InitForecast ==
    /\ \E first \in FirstDays, values \in SeqsUpTo(DailyAmounts, MaxDays),
          indexType \in {"datetime", "str"} :
          fcSeries = DailySeries(first, values, indexType)
    /\ fcOut = NoForecast
    /\ InitModel
    /\ IdleOffer
    /\ IdleRFM
    /\ IdleKM
    /\ IdlePerf
    /\ IdleCLV

NextForecast == GenerateForecast

SpecForecast == InitForecast /\ [][NextForecast]_vars

(* ------------------------ claims on the forecast ----------------------- *)

\* C22: a forecast that is returned has exactly as many points as the
\* steps asked for, dated the consecutive days that follow the last
\* historical date: the k-th point k days after it.
C22_ForecastDatesFollowLastDate ==
    (fcOut.done /\ fcOut.status = "ok") =>
        /\ Len(fcOut.forecast_df) = fcOut.steps
        /\ \A k \in DOMAIN fcOut.forecast_df :
              fcOut.forecast_df[k].date
                  = fcOut.historical_df[Len(fcOut.historical_df)].date + k
        /\ \A i \in DOMAIN fcSeries.index :
              fcOut.historical_df[i].date = fcSeries.index[i]

\* a forecast of several steps from a series of several days that does not
\* start on day 0
C22_Witness ==
    /\ fcOut.done
    /\ fcOut.status = "ok"
    /\ fcOut.steps >= 2
    /\ Len(fcOut.forecast_df) = fcOut.steps
    /\ Len(fcSeries.index) >= 2
    /\ fcSeries.index[1] > 0

\* C23: a call on a series with no more points than the differencing of
\* the model order takes away (none, or one) fails with
\* InsufficientHistoryError.
C23_TooShortHistoryIsRejected ==
    (fcOut.done /\ Len(fcSeries.values) <= ArimaOrder[2]) =>
        fcOut.status = "InsufficientHistoryError"

(* ------------------ claims on the frame of the handlers ---------------- *)

\* C24: a call of the offer normalizer leaves the table it was passed as
\* it was: no column converted or added, no row removed.
C24_NormalizerLeavesInputUnchanged ==
    [][offerDf' = offerDf]_vars

\* C25: a call of preprocess_channels, get_channel_success_rate or any
\* other aggregation leaves the offer table it was passed as it was, so
\* that the same call can be made on it again.
C25_AggregationLeavesInputUnchanged ==
    [][pfDf' = pfDf]_vars

(* ------------------- claims on the age outlier filter ------------------ *)

\* the ages of the rows that have one, in table order
KnownAges(rows) ==
    LET known == SelectSeq(rows, LAMBDA r : r.age # NaN)
    IN  [i \in DOMAIN known |-> known[i].age]

\* age lies in [Q1 - 1.5 IQR, Q3 + 1.5 IQR] of the ages, all scaled by 8
AgeWithinFences(age, ages) ==
    LET q1 == Quantile4(ages, 1)
        q3 == Quantile4(ages, 3)
    IN  /\ 8 * age >= 2 * q1 - 3 * (q3 - q1)
        /\ 8 * age <= 2 * q3 + 3 * (q3 - q1)

\* the first row of the table that has the offer_id
FirstRowOf(rows, offer_id) ==
    CHOOSE j \in DOMAIN rows :
        /\ rows[j].offer_id = offer_id
        /\ \A k \in 1..(j - 1) : rows[k].offer_id # offer_id

\* C30: of a table with an age column, every returned row has an age, and
\* one within [Q1 - 1.5 IQR, Q3 + 1.5 IQR] of the ages of the table passed
\* in, and carries the offer_success computed over the whole table: its
\* window starts at the first row of its offer_id group there, also when
\* that row was removed.
C30_AgeWithinFencesAfterSuccess ==
    (offerOut.done /\ offerOut.status = "ok" /\ offerDf.hasAge) =>
        \A i \in DOMAIN offerOut.df.rows :
            LET r == offerOut.df.rows[i]
                origin == offerDf.rows[FirstRowOf(offerDf.rows, r.offer_id)]
            IN  /\ r.age # NaN
                /\ AgeWithinFences(r.age, KnownAges(offerDf.rows))
                /\ r.offer_success =
                      (/\ r.event = "offer completed"
                       /\ r.time - origin.time <= r.duration * SecondsPerDay)

\* the first row of a group is an age outlier and removed; a completed row
\* of the group is returned with the true offer_success it owes to that row
C30_Witness ==
    /\ offerOut.done
    /\ offerDf.hasAge
    /\ \E i \in DOMAIN offerOut.df.rows :
          LET r == offerOut.df.rows[i]
              origin == offerDf.rows[FirstRowOf(offerDf.rows, r.offer_id)]
          IN  /\ r.offer_success
              /\ origin.age # NaN
              /\ ~AgeWithinFences(origin.age, KnownAges(offerDf.rows))
              /\ origin.time < r.time
              /\ \A k \in DOMAIN offerOut.df.rows : offerOut.df.rows[k] # origin
    /\ \E j \in DOMAIN offerDf.rows : offerDf.rows[j].age = NaN

(* --------------------- claims on malformed events ---------------------- *)

\* C27: an offer event without its time or without its duration is never
\* kept silently: either the call fails, or no row it returns lacks its
\* time or its duration.
C27_MalformedEventNeverKeptSilently ==
    offerOut.done =>
        \/ offerOut.status # "ok"
        \/ \A i \in DOMAIN offerOut.df.rows :
              /\ offerOut.df.rows[i].time # NaN
              /\ offerOut.df.rows[i].duration # NaN

(* ------------------- claims on the offer_success column ---------------- *)

\* C29: after preprocess_offer_events a row carries a true offer_success
\* only if its own event is 'offer completed' and its own time lies within
\* duration days of the first row of its offer_id group; rows of the other
\* event types carry false.
C29_SuccessOnlyOnCompletedWithinWindowOfFirst ==
    offerOut.done =>
        /\ \A i \in DOMAIN offerDf.rows :
              /\ offerDf.rows[i].offer_success =>
                    /\ offerDf.rows[i].event = "offer completed"
                    /\ \E j \in DOMAIN offerDf.rows :
                          /\ offerDf.rows[j].offer_id = offerDf.rows[i].offer_id
                          /\ \A k \in 1..(j - 1) :
                                offerDf.rows[k].offer_id # offerDf.rows[i].offer_id
                          /\ offerDf.rows[i].time - offerDf.rows[j].time
                                <= offerDf.rows[i].duration * SecondsPerDay
              /\ offerDf.rows[i].event # "offer completed" =>
                    ~offerDf.rows[i].offer_success
        /\ \A i \in DOMAIN offerOut.df.rows :
              \E j \in DOMAIN offerDf.rows : offerOut.df.rows[i] = offerDf.rows[j]

\* a group whose first row is a received event holds a completed row with a
\* true offer_success, and another group a completed row outside the window
C29_Witness ==
    /\ offerOut.done
    /\ \E i, j \in DOMAIN offerDf.rows :
          /\ i < j
          /\ offerDf.rows[i].offer_id = offerDf.rows[j].offer_id
          /\ offerDf.rows[i].event = "offer received"
          /\ offerDf.rows[j].offer_success
          /\ offerDf.rows[j].time > offerDf.rows[i].time

(* ------------- claims on the two derivations of the features ----------- *)

\* C28: on the same transaction table, load_and_prepare_data of the
\* trainer and apply_customer_segmentation derive the same RFM table: the
\* same customers, and for each the same recency, frequency and monetary,
\* floored at zero in both and log-transformed in neither.
C28_TrainAndApplyDeriveSameFeatures ==
    (rfmOut.applyDone /\ rfmOut.trainDone /\ txPc = "loaded")
    => rfmOut.apply = rfmOut.train

\* both derivations ran on one loaded table in which a customer has a
\* negative sum of amounts and a customer lies a day behind the latest row
C28_Witness ==
    /\ rfmOut.applyDone
    /\ rfmOut.trainDone
    /\ txPc = "loaded"
    /\ \E c \in DOMAIN rfmOut.train :
          /\ AmountSum(txLog.rows, c) < 0
          /\ rfmOut.train[c].monetary = 0
    /\ \E c \in DOMAIN rfmOut.apply : rfmOut.apply[c].recency >= 1

(* ---------------------- claims on empty inputs ------------------------- *)

\* C26: a call of apply on a table without rows, with both model objects
\* loaded and fitted on the columns of the RFM table, returns, and returns
\* a table without customers.
C26_EmptyInputGivesEmptyTable ==
    (/\ kmLast.status # "none"
     /\ kmLast.rows = <<>>
     /\ \A p \in ModelPaths : modelCache[p] # NotLoaded
     /\ modelCache[ScalerPath].feature_names_in = RFMColumns)
    => /\ kmLast.status = "ok"
       /\ kmLast.cluster = <<>>

====
